---- MODULE Spec2Model ----
(***************************************************************************)
(* Rule engine: semantic / LLM rule validation, the RuleManager rule       *)
(* store, the Qdrant-backed VectorDB and the Streamlit handlers of app.py. *)
(*                                                                         *)
(* Text is a sequence of one-character strings.  A Python dict is a        *)
(* function whose DOMAIN is its key set, so a missing key is a key that is *)
(* not in the DOMAIN.  Scores are exact fractions [num, den]; reported     *)
(* similarities are integers in thousandths (round(score, 3) * 1000).      *)
(***************************************************************************)
EXTENDS Integers, Sequences, FiniteSets, TLC

\* ------------------------------------------------------------------------
\* Bounds of the model
\* ------------------------------------------------------------------------
\* longest list of existing rules handed to a validator
MaxExisting == 2
\* most texts on which the embedding provider raises
MaxFailing == 1
\* most timestamps handed out, so most rules ever added
MaxClock == 2
\* most uuid4 values drawn
MaxUuids == 3
\* most points in the vector store
MaxPoints == 2
\* most calls of a validator on the same arguments
MaxCalls == 2
\* longest context that is segmented character by character
MaxContextLen == 5
\* bits of the significand in the rounded arithmetic of the scorer: products
\* of two significands have to fit the integers of the checker, which rules
\* out the 24 bits of float32 and the 53 bits of float64
Precision == 12

\* ------------------------------------------------------------------------
\* Python string primitives
\* ------------------------------------------------------------------------
NL == "\n"

IsSpace(c) == c \in {" ", NL, "\t"}

\* str.strip(): from the first to the last character that is not whitespace
Strip(s) ==
    LET inked == { i \in 1..Len(s) : ~IsSpace(s[i]) }
    IN  IF inked = {} THEN <<>>
        ELSE SubSeq(s, CHOOSE i \in inked : \A j \in inked : i <= j,
                       CHOOSE i \in inked : \A j \in inked : j <= i)

\* str.startswith(prefix)
StartsWith(s, prefix) == Len(s) >= Len(prefix) /\ SubSeq(s, 1, Len(prefix)) = prefix

\* str.split(sep) for a non-empty separator text: cut at the leftmost
\* occurrence, then split the rest; always at least one field
RECURSIVE SplitStr(_, _)
SplitStr(s, sep) ==
    LET hits == { i \in 1..(Len(s) - Len(sep) + 1) : SubSeq(s, i, i + Len(sep) - 1) = sep }
    IN  IF hits = {} THEN <<s>>
        ELSE LET first == CHOOSE i \in hits : \A j \in hits : i <= j
             IN  <<SubSeq(s, 1, first - 1)>>
                 \o SplitStr(SubSeq(s, first + Len(sep), Len(s)), sep)

\* str.split(sep) for a one-character separator
Split(s, sep) == SplitStr(s, <<sep>>)

\* the fields of a stripped text between runs of whitespace
RECURSIVE Fields(_)
Fields(t) ==
    LET gaps == { i \in 1..Len(t) : IsSpace(t[i]) }
    IN  IF t = <<>> THEN <<>>
        ELSE IF gaps = {} THEN <<t>>
        ELSE LET first == CHOOSE i \in gaps : \A j \in gaps : i <= j
             IN  <<SubSeq(t, 1, first - 1)>> \o Fields(Strip(SubSeq(t, first + 1, Len(t))))

\* str.split() without argument
SplitWS(s) == Fields(Strip(s))

\* sep.join(parts)
RECURSIVE Join(_, _)
Join(parts, sep) ==
    IF parts = <<>> THEN <<>>
    ELSE IF Len(parts) = 1 THEN parts[1]
    ELSE parts[1] \o sep \o Join(Tail(parts), sep)

NonEmpty(s) == s # <<>>

\* [s.strip() for s in lines if s.strip()]
NonBlankStripped(lines) == SelectSeq([i \in 1..Len(lines) |-> Strip(lines[i])], NonEmpty)

\* mutant: blank lines are kept as empty segments
Segments_Unfiltered(text) ==
    [i \in 1..Len(Split(text, NL)) |-> Strip(Split(text, NL)[i])]

\* [s.strip() for s in text.split('\n') if s.strip()]
Segments(text) == NonBlankStripped(Split(text, NL))

\* dict.get(key, default)
Get(d, k, default) == IF k \in DOMAIN d THEN d[k] ELSE default

\* a string literal as text
Chars(str) == [i \in 1..Len(str) |-> SubSeq(str, i, i)]

\* sub in s, for a non-empty sub
Contains(s, sub) == \E i \in 1..(Len(s) - Len(sub) + 1) : SubSeq(s, i, i + Len(sub) - 1) = sub

UpperLetters == Chars("ABCDEFGHIJKLMNOPQRSTUVWXYZ")
LowerLetters == Chars("abcdefghijklmnopqrstuvwxyz")

\* str.lower()
Lower(s) ==
    [i \in 1..Len(s) |->
        IF \E n \in 1..26 : UpperLetters[n] = s[i]
        THEN LowerLetters[CHOOSE n \in 1..26 : UpperLetters[n] = s[i]]
        ELSE s[i]]

\* x in lst
InList(x, lst) == \E i \in 1..Len(lst) : lst[i] = x

\* ------------------------------------------------------------------------
\* semantic_validator.SemanticValidator
\* ------------------------------------------------------------------------
\* SemanticValidator.__init__: threshold in thousandths, minimum length
SemanticValidator == [similarity_threshold |-> 800, min_context_length |-> 10]

\* np.zeros(384): the all-zero vector of the embedding dimension
ZeroVector == <<0, 0>>

\* SemanticValidator._preprocess_text
PreprocessText(text) == Join(SplitWS(Strip(text)), <<" ">>)

\* model.encode([cleaned_text])[0] under the provider <<encode, failing>>:
\* encode raises on the texts in failing; an empty text gets the zero vector
\* without a call (get_embeddings, lines 26-28)
EncodeCleaned(provider, cleaned) ==
    IF cleaned = <<>> THEN [raised |-> FALSE, value |-> ZeroVector]
    ELSE IF cleaned \in provider.failing THEN [raised |-> TRUE]
    ELSE [raised |-> FALSE, value |-> provider.encode[cleaned]]

\* SemanticValidator.get_embeddings
get_embeddings(provider, text) == EncodeCleaned(provider, PreprocessText(text))

Dot(a, b) == a[1] * b[1] + a[2] * b[2]

\* np.linalg.norm on a vector whose norm is an integer
Norm(v) == CHOOSE n \in 0..Dot(v, v) : n * n = Dot(v, v)

\* SemanticValidator.calculate_similarity as an exact fraction.  On vectors
\* whose norms are integers the dot product, the norms and their product are
\* exact in floating point and the quotient is rounded once, so comparing the
\* fraction with a threshold agrees with comparing the float;
\* calculate_similarity_rounded below carries the rounding of every step.
calculate_similarity(embedding1, embedding2) ==
    IF embedding1 = ZeroVector \/ embedding2 = ZeroVector
    THEN [num |-> 0, den |-> 1]
    ELSE [num |-> Dot(embedding1, embedding2),
          den |-> Norm(embedding1) * Norm(embedding2)]

\* mutant: the comparison is strict
AtLeastThreshold_Strict(self, score) ==
    score.num * 1000 > self.similarity_threshold * score.den

\* mutant: a pair is kept when its similarity stays below the threshold
AtLeastThreshold_Inverted(self, score) ==
    score.num * 1000 <= self.similarity_threshold * score.den

\* similarity >= self.similarity_threshold
AtLeastThreshold(self, score) ==
    score.num * 1000 >= self.similarity_threshold * score.den

\* n / d rounded to the nearest integer, ties to even
RoundHalfEven(n, d) ==
    IF 2 * (n % d) > d THEN (n \div d) + 1
    ELSE IF 2 * (n % d) < d THEN n \div d
    ELSE IF (n \div d) % 2 = 0 THEN n \div d ELSE (n \div d) + 1

\* round(score, 3), in thousandths
Round3(score) == RoundHalfEven(score.num * 1000, score.den)

\* lines 83-84: the pair is kept when its similarity reaches the threshold
KeepIfSimilar(self, seg1, seg2, similarity, rest) ==
    IF AtLeastThreshold(self, similarity)
    THEN [raised |-> FALSE, pairs |-> <<<<seg1, seg2, similarity>>>> \o rest.pairs]
    ELSE rest

\* lines 77-84 for one seg2; emb2 is get_embeddings(seg2) and rest is the
\* outcome of the iterations that follow
InnerStep(self, seg1, emb1, seg2, emb2, rest) ==
    IF Len(seg2) < self.min_context_length THEN rest
    ELSE IF emb2.raised \/ rest.raised THEN [raised |-> TRUE]
    ELSE KeepIfSimilar(self, seg1, seg2, calculate_similarity(emb1, emb2.value), rest)

\* inner loop of find_similar_segments (lines 76-84) for one seg1
RECURSIVE InnerLoop(_, _, _, _, _)
InnerLoop(self, provider, seg1, emb1, segments2) ==
    IF segments2 = <<>> THEN [raised |-> FALSE, pairs |-> <<>>]
    ELSE InnerStep(self, seg1, emb1, Head(segments2),
                   get_embeddings(provider, Head(segments2)),
                   InnerLoop(self, provider, seg1, emb1, Tail(segments2)))

\* the pairs of one seg1 followed by those of the later ones
PairsThen(inner, rest) ==
    IF inner.raised \/ rest.raised THEN [raised |-> TRUE]
    ELSE [raised |-> FALSE, pairs |-> inner.pairs \o rest.pairs]

\* mutant: candidate segments of any length are embedded and compared
OuterStep_NoMinimum(self, provider, seg1, emb1, segments2, rest) ==
    IF emb1.raised THEN [raised |-> TRUE]
    ELSE PairsThen(InnerLoop(self, provider, seg1, emb1.value, segments2), rest)

\* lines 71-84 for one seg1; emb1 is get_embeddings(seg1) and rest is the
\* outcome of the iterations that follow
OuterStep(self, provider, seg1, emb1, segments2, rest) ==
    IF Len(seg1) < self.min_context_length THEN rest
    ELSE IF emb1.raised THEN [raised |-> TRUE]
    ELSE PairsThen(InnerLoop(self, provider, seg1, emb1.value, segments2), rest)

\* outer loop of find_similar_segments (lines 70-84)
RECURSIVE OuterLoop(_, _, _, _)
OuterLoop(self, provider, segments1, segments2) ==
    IF segments1 = <<>> THEN [raised |-> FALSE, pairs |-> <<>>]
    ELSE OuterStep(self, provider, Head(segments1),
                   get_embeddings(provider, Head(segments1)), segments2,
                   OuterLoop(self, provider, Tail(segments1), segments2))

\* SemanticValidator.find_similar_segments
find_similar_segments(self, provider, text1, text2) ==
    OuterLoop(self, provider, Segments(text1), Segments(text2))

\* the list comprehension of check_semantic_overlap (lines 106-113)
OverlapDetails(pairs) ==
    [i \in 1..Len(pairs) |->
        [segment1 |-> pairs[i][1], segment2 |-> pairs[i][2],
         similarity |-> Round3(pairs[i][3])]]

\* check_semantic_overlap from line 103 on
OverlapOf(similar_segments) ==
    IF similar_segments.raised THEN [raised |-> TRUE]
    ELSE IF similar_segments.pairs = <<>>
    THEN [raised |-> FALSE, has_overlap |-> FALSE, overlap_details |-> <<>>]
    ELSE [raised |-> FALSE, has_overlap |-> TRUE,
          overlap_details |-> OverlapDetails(similar_segments.pairs)]

\* check_semantic_overlap on the two contexts
OverlapOfTexts(self, provider, text1, text2) ==
    IF text1 = <<>> \/ text2 = <<>>
    THEN [raised |-> FALSE, has_overlap |-> FALSE, overlap_details |-> <<>>]
    ELSE OverlapOf(find_similar_segments(self, provider, text1, text2))

\* SemanticValidator.check_semantic_overlap
check_semantic_overlap(self, provider, rule1, rule2) ==
    OverlapOfTexts(self, provider, Get(rule1, "context", <<>>), Get(rule2, "context", <<>>))

\* lines 129-134 for one existing rule; ov is the outcome of
\* check_semantic_overlap and rest that of the iterations that follow
FeedbackStep(existing_rule, ov, rest) ==
    IF ov.raised \/ rest.raised THEN [raised |-> TRUE]
    ELSE IF ov.has_overlap
    THEN [raised |-> FALSE,
          feedback |-> <<[rule_title |-> existing_rule["title"],
                          overlaps |-> ov.overlap_details]>> \o rest.feedback]
    ELSE rest

\* mutant: the loop stops at the first existing rule that overlaps
FirstOnly(existing_rule, ov, rest) ==
    IF ov.raised THEN [raised |-> TRUE]
    ELSE IF ov.has_overlap
    THEN [raised |-> FALSE,
          feedback |-> <<[rule_title |-> existing_rule["title"],
                          overlaps |-> ov.overlap_details]>>]
    ELSE rest

RECURSIVE DetailedFeedback_FirstOnly(_, _, _, _)
DetailedFeedback_FirstOnly(self, provider, new_rule, existing_rules) ==
    IF existing_rules = <<>> THEN [raised |-> FALSE, feedback |-> <<>>]
    ELSE FirstOnly(Head(existing_rules),
                   check_semantic_overlap(self, provider, new_rule, Head(existing_rules)),
                   DetailedFeedback_FirstOnly(self, provider, new_rule, Tail(existing_rules)))

\* the loop of semantic_validator.validate_rule (lines 126-134)
RECURSIVE DetailedFeedback(_, _, _, _)
DetailedFeedback(self, provider, new_rule, existing_rules) ==
    IF existing_rules = <<>> THEN [raised |-> FALSE, feedback |-> <<>>]
    ELSE FeedbackStep(Head(existing_rules),
                      check_semantic_overlap(self, provider, new_rule, Head(existing_rules)),
                      DetailedFeedback(self, provider, new_rule, Tail(existing_rules)))

\* semantic_validator.validate_rule from line 136 on
ResultOf(loop) ==
    IF loop.raised THEN [raised |-> TRUE]
    ELSE IF loop.feedback # <<>>
    THEN [raised |-> FALSE,
          result |-> [is_valid |-> FALSE, message |-> "Semantic overlap detected",
                      details |-> loop.feedback]]
    ELSE [raised |-> FALSE,
          result |-> [is_valid |-> TRUE, message |-> "Rule is valid",
                      details |-> <<>>]]

\* semantic_validator.validate_rule: the returned dict, or the exception
\* that leaves the call
sem_validate_rule(provider, new_rule, existing_rules) ==
    ResultOf(DetailedFeedback(SemanticValidator, provider, new_rule, existing_rules))

\* ------------------------------------------------------------------------
\* llm_rule_validator
\* ------------------------------------------------------------------------
\* the line prefixes and literals the parsing loop looks for
CanCoexistPrefix == Chars("Can coexist with other rules:")
ContradictionsPrefix == Chars("Direct Contradictions:")
AmbiguousPrefix == Chars("Ambiguous Statements:")
RedundantPrefix == Chars("Redundant Rules:")
GroupingPrefix == Chars("Grouping of Similar Entities:")
SummaryPrefix == Chars("Structured Analysis Summary:")
TrueText == Chars("true")
CommaSpace == Chars(", ")
EmptyListText == Chars("[]")
ErrorSummary == Chars("Error in analysis:")

\* line.split(":")[1].strip()
FieldValue(line) == Strip(Split(line, ":")[2])

\* the state of the parsing loop before the first line (lines 86-91);
\* can_coexist is "None", "True" or "False"
ParseStart ==
    [can_coexist |-> "None",
     direct_contradictions |-> <<>>,
     ambiguous_statements |-> <<>>,
     redundant_rules |-> <<>>,
     grouping_of_similar_entities |-> <<>>,
     structured_analysis_summary |-> <<>>]

\* one iteration of the parsing loop (lines 93-105)
ParseLine(acc, line) ==
    IF StartsWith(line, CanCoexistPrefix)
    THEN [acc EXCEPT !.can_coexist =
              IF Contains(Lower(FieldValue(line)), TrueText) THEN "True" ELSE "False"]
    ELSE IF StartsWith(line, ContradictionsPrefix)
    THEN [acc EXCEPT !.direct_contradictions = SplitStr(FieldValue(line), CommaSpace)]
    ELSE IF StartsWith(line, AmbiguousPrefix)
    THEN [acc EXCEPT !.ambiguous_statements = SplitStr(FieldValue(line), CommaSpace)]
    ELSE IF StartsWith(line, RedundantPrefix)
    THEN [acc EXCEPT !.redundant_rules = SplitStr(FieldValue(line), CommaSpace)]
    ELSE IF StartsWith(line, GroupingPrefix)
    THEN [acc EXCEPT !.grouping_of_similar_entities = FieldValue(line)]
    ELSE IF StartsWith(line, SummaryPrefix)
    THEN [acc EXCEPT !.structured_analysis_summary = FieldValue(line)]
    ELSE acc

RECURSIVE ParseLines(_, _)
ParseLines(acc, lines) ==
    IF lines = <<>> THEN acc ELSE ParseLines(ParseLine(acc, Head(lines)), Tail(lines))

\* mutant: a reply without a "Can coexist" line counts as no objection
analyze_rule_Lenient(completion) ==
    IF completion.raised
    THEN [has_issues |-> TRUE,
          can_coexist |-> "False",
          direct_contradictions |-> <<>>,
          ambiguous_statements |-> <<>>,
          redundant_rules |-> <<>>,
          grouping_of_similar_entities |-> <<>>,
          structured_analysis_summary |-> ErrorSummary]
    ELSE LET parsed == ParseLines(ParseStart, Split(completion.content, NL))
             has_issues == \/ parsed.can_coexist = "False"
                           \/ ~InList(EmptyListText, parsed.direct_contradictions)
                           \/ ~InList(EmptyListText, parsed.ambiguous_statements)
                           \/ ~InList(EmptyListText, parsed.redundant_rules)
         IN  [has_issues |-> has_issues] @@ parsed

\* LLMSemanticValidator.analyze_rule; completion is the outcome of the
\* provider call: [raised |-> TRUE] or [raised |-> FALSE, content |-> text]
analyze_rule(completion) ==
    IF completion.raised
    THEN [has_issues |-> TRUE,
          can_coexist |-> "False",
          direct_contradictions |-> <<>>,
          ambiguous_statements |-> <<>>,
          redundant_rules |-> <<>>,
          grouping_of_similar_entities |-> <<>>,
          structured_analysis_summary |-> ErrorSummary]
    ELSE LET parsed == ParseLines(ParseStart, Split(completion.content, NL))
             has_issues == \/ parsed.can_coexist # "True"
                           \/ ~InList(EmptyListText, parsed.direct_contradictions)
                           \/ ~InList(EmptyListText, parsed.ambiguous_statements)
                           \/ ~InList(EmptyListText, parsed.redundant_rules)
         IN  [has_issues |-> has_issues] @@ parsed

\* llm_rule_validator.validate_rule; uuid is the value of str(uuid.uuid4())
llm_validate_rule(completion, new_rule, existing_rules, uuid) ==
    LET analysis_result == analyze_rule(completion)
    IN  IF analysis_result.has_issues
        THEN [is_valid |-> FALSE, message |-> "Issues detected in rule validation",
              details |-> analysis_result]
        ELSE [is_valid |-> TRUE, message |-> "Rule is valid",
              details |-> analysis_result, rule_id |-> uuid]

\* ------------------------------------------------------------------------
\* Python values, dicts and lists
\* ------------------------------------------------------------------------
None == "None"

\* truth value of an optional string (None and "" are falsy)
Truthy(x) == x # None /\ x # ""

\* d[k] = v
DictSet(d, k, v) == [x \in DOMAIN d \cup {k} |-> IF x = k THEN v ELSE d[x]]

\* 0 <= index < len(lst)
InRange(index, lst) == 0 <= index /\ index < Len(lst)

\* lst[index] does not raise IndexError: negative indices count from the end
Indexable(index, lst) == -Len(lst) <= index /\ index < Len(lst)

\* lst[index]
PyItem(lst, index) == IF index >= 0 THEN lst[index + 1] ELSE lst[Len(lst) + index + 1]

\* del lst[index], for an index in range
PyDel(lst, index) == SubSeq(lst, 1, index) \o SubSeq(lst, index + 2, Len(lst))

\* lst[index] = value, for an index in range
PySetItem(lst, index, value) == [lst EXCEPT ![index + 1] = value]

\* ------------------------------------------------------------------------
\* vector_db.VectorDB: points is the content of the Qdrant collection
\* ------------------------------------------------------------------------
\* payload.update(metadata)
PayloadOf(text, rule_id, metadata) ==
    LET payload == [text |-> text, rule_id |-> rule_id]
    IN  [k \in DOMAIN payload \cup DOMAIN metadata |->
            IF k \in DOMAIN metadata THEN metadata[k] ELSE payload[k]]

\* VectorDB.store_embedding; client is the outcome of client.upsert
store_embedding(points, point_id, embedding, text, rule_id, metadata, client) ==
    IF client = "ok"
    THEN [points |-> points \cup {[id |-> point_id, vector |-> embedding,
                                    payload |-> PayloadOf(text, rule_id, metadata)]},
          ret |-> TRUE]
    ELSE [points |-> points, ret |-> FALSE]

\* VectorDB.delete_rule_embeddings; client is the outcome of client.delete
delete_rule_embeddings(points, rule_id, client) ==
    IF client = "ok"
    THEN [points |-> { pt \in points : pt.payload["rule_id"] # rule_id }, ret |-> TRUE]
    ELSE [points |-> points, ret |-> FALSE]

\* ------------------------------------------------------------------------
\* rule_manager.RuleManager: self is [rules, file, points]
\* ------------------------------------------------------------------------
\* RuleManager.load_rules: json.load of the file, [] when there is none
load_rules(file) == file

\* mutant: the file is not rewritten
save_rules_Skipped(self) == self

\* RuleManager.save_rules: json.dump of self.rules
save_rules(self) == [self EXCEPT !.file = self.rules]

\* RuleManager.__init__
NewRuleManager(file, points) == [rules |-> load_rules(file), file |-> file, points |-> points]

\* RuleManager.get_rules
get_rules(self) == self.rules

\* mutant: the identifier is not written into the record
add_rule_Untagged(self, rule, rule_id, now) ==
    LET stamped == DictSet(rule, "created_at", now)
    IN  [self |-> save_rules([self EXCEPT !.rules = Append(self.rules, stamped)]),
         rule |-> stamped]

\* RuleManager.add_rule; now is datetime.now().isoformat()
add_rule(self, rule, rule_id, now) ==
    LET stamped == DictSet(rule, "created_at", now)
        tagged == IF Truthy(rule_id) THEN DictSet(stamped, "rule_id", rule_id) ELSE stamped
    IN  [self |-> save_rules([self EXCEPT !.rules = Append(self.rules, tagged)]),
         rule |-> tagged]

\* the call self.vector_db.delete_rule_embeddings(rule_id) as the caller
\* sees it: vdb is "ok" or "error" (the outcome of client.delete inside
\* VectorDB) or "raise" (the collaborator call itself raises)
CallDeleteEmbeddings(points, rule_id, vdb) ==
    IF vdb = "raise" THEN [points |-> points, raised |-> TRUE]
    ELSE [raised |-> FALSE] @@ delete_rule_embeddings(points, rule_id, vdb)

\* mutant: a failed deletion of the embeddings blocks the deletion of the rule
delete_rule_Blocking(self, index, vdb) ==
    IF InRange(index, self.rules)
    THEN LET rule == PyItem(self.rules, index)
             rule_id == Get(rule, "rule_id", None)
             call == IF Truthy(rule_id)
                     THEN CallDeleteEmbeddings(self.points, rule_id, vdb)
                     ELSE [points |-> self.points, raised |-> FALSE, ret |-> TRUE]
         IN  IF call.raised \/ ~call.ret
             THEN [self |-> self, ret |-> FALSE]
             ELSE [self |-> save_rules([self EXCEPT !.points = call.points,
                                                   !.rules = PyDel(self.rules, index)]),
                   ret |-> TRUE]
    ELSE [self |-> self, ret |-> FALSE]

\* RuleManager.delete_rule
delete_rule(self, index, vdb) ==
    IF InRange(index, self.rules)
    THEN LET rule == PyItem(self.rules, index)
             rule_id == Get(rule, "rule_id", None)
             call == IF Truthy(rule_id)
                     THEN CallDeleteEmbeddings(self.points, rule_id, vdb)
                     ELSE [points |-> self.points, raised |-> FALSE]
         IN  [self |-> save_rules([self EXCEPT !.points = call.points,
                                               !.rules = PyDel(self.rules, index)]),
              ret |-> TRUE]
    ELSE [self |-> self, ret |-> FALSE]

\* RuleManager.update_rule: the second definition in the class body, which
\* replaces the first one (lines 53-66)
update_rule(self, index, updated_rule, vdb) ==
    IF ~Indexable(index, self.rules)
    THEN [self |-> self, ret |-> FALSE]
    ELSE LET old_rule_id == Get(PyItem(self.rules, index), "rule_id", None)
             call == IF Truthy(old_rule_id)
                     THEN CallDeleteEmbeddings(self.points, old_rule_id, vdb)
                     ELSE [points |-> self.points, raised |-> FALSE]
             purged == [self EXCEPT !.points = call.points]
         IN  IF call.raised THEN [self |-> self, ret |-> FALSE]
             ELSE IF InRange(index, get_rules(purged))
             THEN [self |-> save_rules([purged EXCEPT
                               !.rules = PySetItem(purged.rules, index, updated_rule)]),
                   ret |-> TRUE]
             ELSE [self |-> purged, ret |-> FALSE]

\* ------------------------------------------------------------------------
\* Inputs of the validation runs
\* ------------------------------------------------------------------------
Rep(c, n) == [i \in 1..n |-> c]

\* a line of exactly min_context_length characters, another one, and a line
\* one character short of the minimum
LongA == Rep("a", 10)
LongB == Rep("b", 10)
ShortA == Rep("a", 9)

CandidateContexts ==
    { <<>>,
      LongA,
      ShortA,
      <<" ">> \o LongA \o <<" ", NL, NL>> \o LongB,
      LongB \o <<NL>> \o LongA,
      ShortA \o <<NL>> \o LongB,
      <<" ", NL, " ">> }

ExistingPool ==
    { [title |-> "T1", context |-> LongA],
      [title |-> "T2", context |-> LongB \o <<NL, "\t">> \o ShortA],
      [title |-> "T1", context |-> <<>>] }

SeqsUpTo(S, n) == UNION { [1..k -> S] : k \in 0..n }

RECURSIVE SeqToSet(_)
SeqToSet(s) == IF s = <<>> THEN {} ELSE {Head(s)} \cup SeqToSet(Tail(s))

\* every cleaned segment text the provider can be asked about
SemTexts ==
    UNION { { PreprocessText(seg) : seg \in SeqToSet(Segments(c)) } :
            c \in CandidateContexts \cup { r["context"] : r \in ExistingPool } }

\* vectors with integer norms: cos(<<1,0>>,<<4,3>>) = 0.8, cos(<<1,0>>,<<3,4>>) = 0.6,
\* cos(<<4,3>>,<<3,4>>) = 0.96, cos(<<1,0>>,<<-1,0>>) = -1
Vectors == { ZeroVector, <<1, 0>>, <<4, 3>>, <<3, 4>>, <<-1, 0>> }

Providers ==
    { [encode |-> e, failing |-> f] :
        e \in [SemTexts -> Vectors],
        f \in { F \in SUBSET SemTexts : Cardinality(F) <= MaxFailing } }

\* ------------------------------------------------------------------------
\* State
\* ------------------------------------------------------------------------
VARIABLES
    sv_provider,   \* the embedding provider of a semantic validation run
    sv_new_rule,   \* its candidate rule
    sv_existing,   \* its list of existing rules
    sv_ret,        \* its outcome: pending, a returned dict, or an exception
    repository,    \* the rules in rules_repository.json
    rules,         \* RuleManager.rules of the live RuleManager
    points,        \* the points of the Qdrant collection
    session_rules, \* st.session_state.rules
    editing_rule,  \* st.session_state.editing_rule
    uuid_count,    \* uuid4 values drawn so far
    clock,         \* timestamps handed out by datetime.now()
    last           \* what the last operation was given and what it returned

semVars == <<sv_provider, sv_new_rule, sv_existing, sv_ret>>
storeVars == <<repository, rules, points, session_rules, editing_rule, uuid_count, clock, last>>
vars == <<sv_provider, sv_new_rule, sv_existing, sv_ret,
          repository, rules, points, session_rules, editing_rule, uuid_count, clock, last>>

Pending == [state |-> "pending"]

\* st.session_state.editing_rule = None
NotEditing == -1

\* str(uuid.uuid4()): the n-th value drawn, distinct from all earlier ones
Uuid(n) == "uuid-" \o ToString(n)

\* no rules, no points, nothing run yet
StoresEmpty ==
    /\ repository = <<>>
    /\ rules = load_rules(<<>>)
    /\ points = {}
    /\ session_rules = <<>>
    /\ editing_rule = NotEditing
    /\ uuid_count = 0
    /\ clock = 0
    /\ last = [op |-> "init"]

\* ------------------------------------------------------------------------
\* A call of semantic_validator.validate_rule
\* ------------------------------------------------------------------------
SemInit ==
    /\ sv_provider \in Providers
    /\ sv_new_rule \in { [title |-> "T0", context |-> c] : c \in CandidateContexts }
                      \cup { [title |-> "T0"] }
    /\ sv_existing \in SeqsUpTo(ExistingPool, MaxExisting)
    /\ sv_ret = Pending
    /\ StoresEmpty

SemValidate ==
    /\ sv_ret = Pending
    /\ sv_ret' = [state |-> "done"] @@ sem_validate_rule(sv_provider, sv_new_rule, sv_existing)
    /\ UNCHANGED <<sv_provider, sv_new_rule, sv_existing>>
    /\ UNCHANGED storeVars

SemNext == SemValidate

SpecSem == SemInit /\ [][SemNext]_vars

\* no semantic validation run
SemIdle ==
    /\ sv_provider = [encode |-> <<>>, failing |-> {}]
    /\ sv_new_rule = <<>>
    /\ sv_existing = <<>>
    /\ sv_ret = Pending

\* ------------------------------------------------------------------------
\* RuleManager and VectorDB driven through their methods
\* ------------------------------------------------------------------------
\* the rule dicts a caller builds: a title and a context
CallerRules ==
    { [title |-> "T1", context |-> LongA],
      [title |-> "T2", context |-> LongB \o <<NL>> \o ShortA] }

VdbOutcomes == {"ok", "error", "raise"}

Manager == [rules |-> rules, file |-> repository, points |-> points]

\* the state the manager is left in
ManagerBecomes(self) ==
    /\ rules' = self.rules
    /\ repository' = self.file
    /\ points' = self.points

RmInit == SemIdle /\ StoresEmpty

RmAddRule ==
    /\ clock < MaxClock
    /\ \E rule \in CallerRules, with_id \in BOOLEAN :
          /\ with_id => uuid_count < MaxUuids
          /\ LET rule_id == IF with_id THEN Uuid(uuid_count + 1) ELSE None
              done == add_rule(Manager, rule, rule_id, clock + 1)
            IN  /\ ManagerBecomes(done.self)
                /\ uuid_count' = IF with_id THEN uuid_count + 1 ELSE uuid_count
                /\ clock' = clock + 1
                /\ last' = [op |-> "add_rule", rule_id |-> rule_id,
                            pre_rules |-> rules, pre_points |-> points]
    /\ UNCHANGED <<session_rules, editing_rule>>
    /\ UNCHANGED semVars

RmDeleteRule ==
    /\ \E index \in -1..Len(rules), vdb \in VdbOutcomes :
          LET done == delete_rule(Manager, index, vdb)
          IN  /\ ManagerBecomes(done.self)
              /\ last' = [op |-> "delete_rule", index |-> index, vdb |-> vdb,
                          ret |-> done.ret, pre_rules |-> rules, pre_points |-> points]
    /\ UNCHANGED <<session_rules, editing_rule, uuid_count, clock>>
    /\ UNCHANGED semVars

RmUpdateRule ==
    /\ \E index \in -1..Len(rules), updated_rule \in CallerRules, vdb \in VdbOutcomes :
          LET done == update_rule(Manager, index, updated_rule, vdb)
          IN  /\ ManagerBecomes(done.self)
              /\ last' = [op |-> "update_rule", index |-> index, vdb |-> vdb,
                          ret |-> done.ret, pre_rules |-> rules, pre_points |-> points]
    /\ UNCHANGED <<session_rules, editing_rule, uuid_count, clock>>
    /\ UNCHANGED semVars

\* VectorDB.store_embedding for a segment of a stored rule
VdbStoreEmbedding ==
    /\ Cardinality(points) < MaxPoints
    /\ uuid_count < MaxUuids
    /\ \E i \in 1..Len(rules), client \in {"ok", "error"} :
          /\ "rule_id" \in DOMAIN rules[i]
          /\ \E n \in 1..Len(Segments(rules[i]["context"])) :
                LET text == Segments(rules[i]["context"])[n]
                    done == store_embedding(points, Uuid(uuid_count + 1), <<1, 0>>, text,
                                            rules[i]["rule_id"],
                                            [title |-> rules[i]["title"]], client)
                IN  /\ points' = done.points
                    /\ uuid_count' = uuid_count + 1
                    /\ last' = [op |-> "store_embedding", ret |-> done.ret,
                                pre_rules |-> rules, pre_points |-> points]
    /\ UNCHANGED <<repository, rules, session_rules, editing_rule, clock>>
    /\ UNCHANGED semVars

RmNext == RmAddRule \/ RmDeleteRule \/ RmUpdateRule \/ VdbStoreEmbedding

SpecRM == RmInit /\ [][RmNext]_vars

\* ------------------------------------------------------------------------
\* title_generator
\* ------------------------------------------------------------------------
\* TitleGenerator.__init__
TitleGenerator == [max_words |-> 10, min_words |-> 3, default_prefix |-> Chars("Rule")]

IsLetter(c) == InList(c, UpperLetters) \/ InList(c, LowerLetters)

\* \w of the re module
IsWordChar(c) == IsLetter(c) \/ InList(c, Chars("0123456789_"))

\* the characters re.sub(r'[^\w\s\-:,]', '', title) keeps
IsTitleChar(c) == IsWordChar(c) \/ IsSpace(c) \/ c \in {"-", ":", ","}

\* str.upper() of one character
UpperChar(c) ==
    IF InList(c, LowerLetters) THEN UpperLetters[CHOOSE n \in 1..26 : LowerLetters[n] = c]
    ELSE c

\* str.title(): a letter that follows no letter is upper-cased, the others
\* are lower-cased
TitleCase(s) ==
    [i \in 1..Len(s) |->
        IF ~IsLetter(s[i]) THEN s[i]
        ELSE IF i = 1 \/ ~IsLetter(s[i - 1]) THEN UpperChar(s[i])
        ELSE Lower(<<s[i]>>)[1]]

\* TitleGenerator._clean_title
clean_title(title) == TitleCase(Join(SplitWS(SelectSeq(title, IsTitleChar)), <<" ">>))

LongerThanTwo(w) == Len(w) > 2

LongerThanThree(w) == Len(w) > 3

\* TitleGenerator._validate_title from line 31 on
ValidWords(self, words) ==
    /\ Len(words) >= self.min_words
    /\ Len(words) <= self.max_words
    /\ Len(SelectSeq(words, LongerThanTwo)) >= 2

\* TitleGenerator._validate_title
validate_title(self, title) == title # <<>> /\ ValidWords(self, SplitWS(title))

\* re.findall(r'\b\w+\b', line): the maximal runs of word characters
WordRuns(line) ==
    LET starts == { i \in 1..Len(line) :
                      IsWordChar(line[i]) /\ (i = 1 \/ ~IsWordChar(line[i - 1])) }
        EndOf(i) == CHOOSE j \in i..Len(line) :
                       /\ \A k \in i..j : IsWordChar(line[k])
                       /\ (j = Len(line) \/ ~IsWordChar(line[j + 1]))
        Nth(n) == CHOOSE i \in starts : Cardinality({ k \in starts : k < i }) = n - 1
    IN  [n \in 1..Cardinality(starts) |-> SubSeq(line, Nth(n), EndOf(Nth(n)))]

\* lst[:n]
Take(lst, n) == SubSeq(lst, 1, IF Len(lst) < n THEN Len(lst) ELSE n)

\* TitleGenerator._extract_key_terms from line 47 on
KeyTermsOf(lines) ==
    IF lines = <<>> THEN <<>>
    ELSE Take(SelectSeq(WordRuns(lines[1]), LongerThanThree), 5)

\* TitleGenerator._extract_key_terms
extract_key_terms(context) == KeyTermsOf(Segments(context))

\* TitleGenerator._generate_backup_title from line 55 on
BackupFrom(self, context, terms) ==
    IF terms # <<>>
    THEN self.default_prefix \o Chars(": ") \o Join(Take(terms, 4), <<" ">>)
    ELSE self.default_prefix \o <<" ">> \o Strip(Take(context, 30)) \o Chars("...")

\* TitleGenerator._generate_backup_title
generate_backup_title(self, context) == BackupFrom(self, context, extract_key_terms(context))

\* lines 88-94: the cleaned title when it is valid, the backup title otherwise
CheckedTitle(self, context, title) ==
    IF validate_title(self, title) THEN title ELSE generate_backup_title(self, context)

\* mutant: the cleaned title is returned without validation
generate_title_async_Unchecked(self, context, completion) ==
    IF completion.raised THEN generate_backup_title(self, context)
    ELSE clean_title(Strip(completion.content))

\* TitleGenerator.generate_title_async; completion is the outcome of the
\* provider call: [raised |-> TRUE] or [raised |-> FALSE, content |-> text]
generate_title_async(self, context, completion) ==
    IF completion.raised THEN generate_backup_title(self, context)
    ELSE CheckedTitle(self, context, clean_title(Strip(completion.content)))

\* title_generator.generate_title
generate_title(context, completion) == generate_title_async(TitleGenerator, context, completion)

\* ------------------------------------------------------------------------
\* app.py: one script run per widget event of a single session
\* ------------------------------------------------------------------------
\* format_rule_context
format_rule_context(context) == Join(Segments(context), <<NL>>)

\* [r for i, r in enumerate(lst) if i != index], from position n on
RECURSIVE ExceptIndexFrom(_, _, _)
ExceptIndexFrom(lst, index, n) ==
    IF n > Len(lst) THEN <<>>
    ELSE (IF n - 1 # index THEN <<lst[n]>> ELSE <<>>) \o ExceptIndexFrom(lst, index, n + 1)

\* mutant: the position is taken as 1-based
ExceptIndex_OneBased(lst, index) == ExceptIndexFrom(lst, index - 1, 1)

\* current_rules of display_rule (app.py line 47)
ExceptIndex(lst, index) == ExceptIndexFrom(lst, index, 1)

\* what the user types into a text area
RawContexts ==
    { LongA,
      <<" ">> \o LongB \o <<NL, NL>> \o ShortA,
      <<" ">> }

\* outcomes of litellm.completion in generate_title_async: the call raises,
\* or returns a title that passes validation once cleaned, or one that fails
TitleCompletions ==
    { [raised |-> TRUE],
      [raised |-> FALSE, content |-> Chars(" use *safe* keys! ")],
      [raised |-> FALSE, content |-> Chars("ok")] }

ReplyAccept ==
    Chars("Can coexist with other rules: True") \o <<NL>> \o
    Chars("Direct Contradictions: []") \o <<NL>> \o
    Chars("Ambiguous Statements: []") \o <<NL>> \o
    Chars("Redundant Rules: []") \o <<NL>> \o
    Chars("Structured Analysis Summary: fine")

ReplyReject ==
    Chars("Can coexist with other rules: false") \o <<NL>> \o
    Chars("Direct Contradictions: []") \o <<NL>> \o
    Chars("Ambiguous Statements: []") \o <<NL>> \o
    Chars("Redundant Rules: [T1, T2]")

\* outcomes of litellm.completion
Completions ==
    { [raised |-> TRUE],
      [raised |-> FALSE, content |-> ReplyAccept],
      [raised |-> FALSE, content |-> ReplyReject] }

\* outcomes of client.delete inside the VectorDB the app constructs
ClientOutcomes == {"ok", "error"}

AppInit == SemIdle /\ StoresEmpty

\* the "Submit Rule" form (main, lines 129-157)
Submit ==
    /\ clock < MaxClock
    /\ uuid_count < MaxUuids
    /\ \E context \in RawContexts, title_completion \in TitleCompletions :
       \E title \in { generate_title(context, title_completion) } :
       \E new_rule \in { [title |-> title, context |-> format_rule_context(context)] } :
       \E completion \in Completions :
       \E validation_result \in
             { llm_validate_rule(completion, new_rule, session_rules, Uuid(uuid_count + 1)) } :
          LET rule_manager == NewRuleManager(repository, points)
              added == add_rule(rule_manager, new_rule, validation_result["rule_id"], clock + 1)
          IN  /\ context # <<>>
              /\ IF validation_result["is_valid"]
                 THEN /\ session_rules' = Append(session_rules, added.rule)
                      /\ ManagerBecomes(added.self)
                      /\ uuid_count' = uuid_count + 1
                      /\ clock' = clock + 1
                 ELSE /\ ManagerBecomes(rule_manager)
                      /\ UNCHANGED <<session_rules, uuid_count, clock>>
              /\ last' = [op |-> "submit", raw |-> context,
                          title_completion |-> title_completion, candidate |-> new_rule,
                          existing |-> session_rules, validation |-> validation_result,
                          pre_repository |-> repository, pre_points |-> points,
                          pre_session |-> session_rules]
    /\ UNCHANGED editing_rule
    /\ UNCHANGED semVars

\* the "Edit" button of rule index (display_rule, lines 91-94)
Edit ==
    /\ \E index \in 0..(Len(session_rules) - 1) :
          /\ editing_rule # index
          /\ editing_rule' = index
          /\ last' = [op |-> "edit", index |-> index]
    /\ ManagerBecomes(NewRuleManager(repository, points))
    /\ UNCHANGED <<session_rules, uuid_count, clock>>
    /\ UNCHANGED semVars

\* the "Cancel" button of the rule being edited (display_rule, lines 72-74)
Cancel ==
    /\ InRange(editing_rule, session_rules)
    /\ editing_rule' = NotEditing
    /\ last' = [op |-> "cancel", index |-> editing_rule]
    /\ ManagerBecomes(NewRuleManager(repository, points))
    /\ UNCHANGED <<session_rules, uuid_count, clock>>
    /\ UNCHANGED semVars

\* the "Save" button of the rule being edited (display_rule, lines 38-70)
Save ==
    /\ InRange(editing_rule, session_rules)
    /\ uuid_count < MaxUuids
    /\ \E new_context \in RawContexts \cup {<<>>}, title_completion \in TitleCompletions :
       \E new_title \in { generate_title(new_context, title_completion) } :
       \E updated_rule \in { [title |-> new_title,
                               context |-> format_rule_context(new_context)] } :
       \E current_rules \in { ExceptIndex(session_rules, editing_rule) } :
       \E completion \in Completions :
       \E validation_result \in
             { llm_validate_rule(completion, updated_rule, current_rules,
                                 Uuid(uuid_count + 1)) } :
       \E client \in ClientOutcomes :
          LET index == editing_rule
              rule_manager == NewRuleManager(repository, points)
              updated == update_rule(rule_manager, index, updated_rule, client)
          IN  /\ IF validation_result["is_valid"]
                 THEN /\ ManagerBecomes(updated.self)
                      /\ uuid_count' = uuid_count + 1
                      /\ IF updated.ret
                         THEN /\ session_rules' = get_rules(updated.self)
                              /\ editing_rule' = NotEditing
                         ELSE UNCHANGED <<session_rules, editing_rule>>
                 ELSE /\ ManagerBecomes(rule_manager)
                      /\ UNCHANGED <<session_rules, editing_rule, uuid_count>>
              /\ last' = [op |-> "save", index |-> index, raw |-> new_context,
                          title_completion |-> title_completion, candidate |-> updated_rule,
                          existing |-> current_rules, validation |-> validation_result,
                          pre_repository |-> repository, pre_points |-> points,
                          pre_session |-> session_rules]
    /\ UNCHANGED clock
    /\ UNCHANGED semVars

\* the "Delete" button of rule index (display_rule, lines 96-99)
Delete ==
    /\ \E index \in 0..(Len(session_rules) - 1), client \in ClientOutcomes :
          LET rule_manager == NewRuleManager(repository, points)
              deleted == delete_rule(rule_manager, index, client)
          IN  /\ editing_rule # index
              /\ ManagerBecomes(deleted.self)
              /\ session_rules' = IF deleted.ret THEN get_rules(deleted.self)
                                                ELSE session_rules
              /\ last' = [op |-> "delete", index |-> index, ret |-> deleted.ret,
                          pre_repository |-> repository, pre_points |-> points,
                          pre_session |-> session_rules]
    /\ UNCHANGED <<editing_rule, uuid_count, clock>>
    /\ UNCHANGED semVars

Next == Submit \/ Edit \/ Cancel \/ Save \/ Delete

Spec == AppInit /\ [][Next]_vars

\* ------------------------------------------------------------------------
\* Properties of semantic_validator.validate_rule (SpecSem)
\* ------------------------------------------------------------------------
SemReturned == sv_ret.state = "done" /\ ~sv_ret.raised

SemContext(rule) == Get(rule, "context", <<>>)

\* a segment takes part in the comparison when it reaches the minimum length
Comparable(seg) == Len(seg) >= SemanticValidator.min_context_length

\* the score the provider's vectors give a pair of segments
PairScore(seg1, seg2) ==
    calculate_similarity(sv_provider.encode[PreprocessText(seg1)],
                         sv_provider.encode[PreprocessText(seg2)])

ScoreAtLeastThreshold(seg1, seg2) ==
    LET sc == PairScore(seg1, seg2)
    IN  sc.num * 1000 >= 800 * sc.den

\* <<k, i, j>>: segment i of the candidate and segment j of existing rule k
\* are compared and score at or above the threshold
Matches ==
    LET segs1 == Segments(SemContext(sv_new_rule))
    IN  UNION { LET segs2 == Segments(SemContext(sv_existing[k]))
                IN  { <<k, p[1], p[2]>> :
                        p \in { q \in (1..Len(segs1)) \X (1..Len(segs2)) :
                                  /\ Comparable(segs1[q[1]])
                                  /\ Comparable(segs2[q[2]])
                                  /\ ScoreAtLeastThreshold(segs1[q[1]], segs2[q[2]]) } } :
                k \in 1..Len(sv_existing) }

\* C1: whenever semantic_validator.validate_rule returns, the result is
\* invalid with message "Semantic overlap detected" and a non-empty detail
\* list exactly when some compared (candidate segment, existing segment) pair
\* scores at or above similarity_threshold, and it is valid otherwise.
C1_InvalidIffMatch ==
    SemReturned =>
        /\ (Matches # {}) <=>
              /\ sv_ret.result.is_valid = FALSE
              /\ sv_ret.result.message = "Semantic overlap detected"
              /\ sv_ret.result.details # <<>>
        /\ (Matches = {}) <=> (sv_ret.result.is_valid = TRUE)

\* a candidate with a short and a long line is rejected for its long line
C1_Witness ==
    /\ SemReturned
    /\ sv_ret.result.is_valid = FALSE
    /\ \E i \in 1..Len(Segments(SemContext(sv_new_rule))) :
          ~Comparable(Segments(SemContext(sv_new_rule))[i])

\* C7: an embedding-provider exception for one segment does not abort
\* semantic_validator.validate_rule; the call still returns a result.
C7_ProviderFailureDoesNotAbort ==
    sv_ret.state = "done" => ~sv_ret.raised

\* C4: a result carries a rule_id exactly when it is valid.
C4_RuleIdIffValid ==
    SemReturned => (("rule_id" \in DOMAIN sv_ret.result) <=> sv_ret.result.is_valid)

\* the detail list read entry by entry: each overlap with the title of its group
RECURSIVE FlatDetails(_)
FlatDetails(details) ==
    IF details = <<>> THEN <<>>
    ELSE [n \in 1..Len(Head(details).overlaps) |->
            [rule_title |-> Head(details).rule_title,
             segment1 |-> Head(details).overlaps[n].segment1,
             segment2 |-> Head(details).overlaps[n].segment2,
             similarity |-> Head(details).overlaps[n].similarity]]
         \o FlatDetails(Tail(details))

\* encounter order: existing rule, then candidate segment, then prior segment
Earlier(u, t) ==
    \/ u[1] < t[1]
    \/ u[1] = t[1] /\ u[2] < t[2]
    \/ u[1] = t[1] /\ u[2] = t[2] /\ u[3] < t[3]

EncounterRank(t) == 1 + Cardinality({ u \in Matches : Earlier(u, t) })

\* C10: the detail list reports exactly the compared pairs scoring at or
\* above the threshold, each with the candidate segment, the prior segment,
\* the similarity (thousandths, never below the threshold) and the prior
\* rule's title, in encounter order: existing rules in list order, then
\* candidate segments, then prior segments.
C10_DetailsAreAllMatchesInOrder ==
    SemReturned =>
        LET flat == FlatDetails(sv_ret.result.details)
            segs1 == Segments(SemContext(sv_new_rule))
        IN  /\ Len(flat) = Cardinality(Matches)
            /\ \A t \in Matches :
                  LET segs2 == Segments(SemContext(sv_existing[t[1]]))
                      e == flat[EncounterRank(t)]
                  IN  /\ e.rule_title = sv_existing[t[1]]["title"]
                      /\ e.segment1 = segs1[t[2]]
                      /\ e.segment2 = segs2[t[3]]
                      /\ e.similarity = Round3(PairScore(segs1[t[2]], segs2[t[3]]))
                      /\ e.similarity >= 800

\* several matches, spread over two existing rules and two candidate segments
C10_Witness ==
    /\ SemReturned
    /\ Len(sv_ret.result.details) = 2
    /\ Len(FlatDetails(sv_ret.result.details)) >= 3
    /\ \E t \in Matches : t[2] = 2

\* the segments of the candidate and of the existing rules
CandidateSegments == SeqToSet(Segments(SemContext(sv_new_rule)))

ExistingSegments ==
    UNION { SeqToSet(Segments(SemContext(sv_existing[k]))) : k \in 1..Len(sv_existing) }

\* C14: a segment shorter than min_context_length (10) is neither embedded
\* nor compared: no reported match has a candidate or prior segment below
\* the minimum, the provider is only asked about segments that reach it, and
\* a candidate whose segments are all shorter is valid whatever the existing
\* rules and the provider are.
C14_ShortSegmentsAreNeverCompared ==
    sv_ret.state = "done" =>
        /\ SemReturned =>
              \A i \in 1..Len(FlatDetails(sv_ret.result.details)) :
                 /\ Len(FlatDetails(sv_ret.result.details)[i].segment1) >= 10
                 /\ Len(FlatDetails(sv_ret.result.details)[i].segment2) >= 10
        /\ sv_ret.raised =>
              \E seg \in CandidateSegments \cup ExistingSegments :
                 Len(seg) >= 10 /\ PreprocessText(seg) \in sv_provider.failing
        /\ (\A seg \in CandidateSegments : Len(seg) < 10) =>
              SemReturned /\ sv_ret.result.is_valid

\* a short candidate segment and a short prior segment that would match, and
\* on which the provider would fail, in a validation that returns valid
C14_Witness ==
    /\ SemReturned
    /\ sv_ret.result.is_valid
    /\ \E seg1 \in CandidateSegments, seg2 \in ExistingSegments :
          /\ Len(seg1) < 10
          /\ Len(seg2) < 10
          /\ ScoreAtLeastThreshold(seg1, seg2)
          /\ PreprocessText(seg1) \in sv_provider.failing

\* ------------------------------------------------------------------------
\* Properties of RuleManager and VectorDB (SpecRM)
\* ------------------------------------------------------------------------
\* a list without its element at the 0-based position index
RemoveAt(lst, index) ==
    [i \in 1..(Len(lst) - 1) |-> IF i <= index THEN lst[i] ELSE lst[i + 1]]

RuleIdOf(rule) == Get(rule, "rule_id", None)

PointsOf(pts, rule_id) == { pt \in pts : pt.payload["rule_id"] = rule_id }

\* C2: after update_rule returns True for position i, the record at
\* position i carries the rule_id it had before the update.
C2_UpdateKeepsRuleId ==
    (last.op = "update_rule" /\ last.ret) =>
        RuleIdOf(rules[last.index + 1]) = RuleIdOf(last.pre_rules[last.index + 1])

\* C5: delete_rule at a valid position returns True and removes exactly
\* that rule from the list and from the file, whether the deletion of its
\* embeddings succeeds, returns failure or raises; when the deletion
\* succeeds, no point tagged with the deleted rule's identifier remains.
C5_DeleteAlwaysRemovesTheRule ==
    (last.op = "delete_rule" /\ InRange(last.index, last.pre_rules)) =>
        LET deleted_id == RuleIdOf(last.pre_rules[last.index + 1])
        IN  /\ last.ret = TRUE
            /\ rules = RemoveAt(last.pre_rules, last.index)
            /\ repository = RemoveAt(last.pre_rules, last.index)
            /\ (Truthy(deleted_id) /\ last.vdb = "ok") => PointsOf(points, deleted_id) = {}
            /\ \A pt \in points : pt \in last.pre_points

\* the deletion of the embeddings raised, the rule is gone from a store that
\* keeps another rule, and its embedding is left behind
C5_Witness ==
    /\ last.op = "delete_rule"
    /\ InRange(last.index, last.pre_rules)
    /\ last.vdb = "raise"
    /\ Len(rules) = 1
    /\ PointsOf(points, RuleIdOf(last.pre_rules[last.index + 1])) # {}

\* C18: whenever update_rule returns False, for an index out of range or
\* negative, the rule list, the file and the vector store are as they were
\* before the call.
C18_FailedUpdateChangesNothing ==
    (last.op = "update_rule" /\ ~last.ret) =>
        /\ rules = last.pre_rules
        /\ repository = last.pre_rules
        /\ points = last.pre_points

\* ------------------------------------------------------------------------
\* Properties of the app handlers (Spec)
\* ------------------------------------------------------------------------
Validated == last.op \in {"submit", "save"}

Accepted == Validated /\ last.validation["is_valid"]

\* C3: once an accepted Add has completed, the vector store holds, for every
\* segment of the accepted content that reaches the minimum length, a point
\* with that text tagged with the rule's identifier.
C3_AcceptedRuleIsEmbedded ==
    (last.op = "submit" /\ Accepted) =>
        LET segs == Segments(last.candidate["context"])
        IN  \A i \in 1..Len(segs) :
              Len(segs[i]) >= SemanticValidator.min_context_length =>
                \E pt \in points : /\ pt.payload["rule_id"] = last.validation["rule_id"]
                                    /\ pt.payload["text"] = segs[i]

\* C6: on Save of the rule at position i the validator is handed the
\* session's rule list without position i: every other rule, in order.
C6_UpdateExcludesEditedRule ==
    last.op = "save" => last.existing = RemoveAt(last.pre_session, last.index)

\* the first of two different rules is saved
C6_Witness ==
    /\ last.op = "save"
    /\ last.index = 0
    /\ Len(last.pre_session) = 2
    /\ last.pre_session[1] # last.pre_session[2]

\* C8: a candidate whose context is empty is judged valid with an empty
\* detail list, whatever the existing rules are.
C8_EmptyContextIsValid ==
    (Validated /\ Get(last.candidate, "context", <<>>) = <<>>) =>
        /\ last.validation["is_valid"]
        /\ last.validation["details"] = <<>>

\* C9: an Add changes the rule store exactly when validation succeeds; on
\* success the file is the previous list followed by the candidate with the
\* identifier validation returned and a creation timestamp; on rejection the
\* file and the vector store are unchanged.
C9_AddAppendsIffValid ==
    last.op = "submit" =>
        /\ (repository # last.pre_repository) <=> last.validation["is_valid"]
        /\ last.validation["is_valid"] =>
              /\ Len(repository) = Len(last.pre_repository) + 1
              /\ SubSeq(repository, 1, Len(last.pre_repository)) = last.pre_repository
              /\ LET stored == repository[Len(repository)]
                 IN  /\ DOMAIN stored = {"title", "context", "created_at", "rule_id"}
                     /\ stored["title"] = last.candidate["title"]
                     /\ stored["context"] = last.candidate["context"]
                     /\ stored["rule_id"] = last.validation["rule_id"]
        /\ ~last.validation["is_valid"] =>
              /\ repository = last.pre_repository
              /\ points = last.pre_points

\* an accepted Add onto a store that already holds a rule
C9_Witness ==
    /\ last.op = "submit"
    /\ last.validation["is_valid"]
    /\ Len(last.pre_repository) = 1
    /\ Len(repository) = 2

\* the provider raised, or returned a title that fails validation once cleaned
TitleFailed(title_completion) ==
    \/ title_completion.raised
    \/ ~validate_title(TitleGenerator, clean_title(Strip(title_completion.content)))

\* the title of the record an accepted Add or Update has stored
StoredTitle ==
    IF last.op = "submit" THEN repository[Len(repository)]["title"]
    ELSE repository[last.index + 1]["title"]

\* C16: when the provider raises during title generation, or returns a title
\* that fails validation, generate_title returns the backup title derived
\* from the context the user typed, the rule is validated under that title
\* and, when accepted, stored under it.
C16_TitleFallsBackToBackup ==
    (Validated /\ TitleFailed(last.title_completion)) =>
        /\ last.candidate["title"] = generate_backup_title(TitleGenerator, last.raw)
        /\ StartsWith(last.candidate["title"], Chars("Rule"))
        /\ Accepted => StoredTitle = last.candidate["title"]

\* the provider's title "ok" is refused and the rule is added under the
\* title made of the first line of its context
C16_Witness ==
    /\ last.op = "submit"
    /\ Accepted
    /\ ~last.title_completion.raised
    /\ TitleFailed(last.title_completion)
    /\ repository[Len(repository)]["title"] = Chars("Rule: bbbbbbbbbb")

\* C17: after every add, update and delete of a session the file, the list
\* of the RuleManager of that script run and the session's list hold the
\* same rules in the same order.
C17_StoresHoldTheSameRules ==
    /\ repository = rules
    /\ rules = session_rules

\* an accepted Save has rewritten one of two stored rules
C17_Witness ==
    /\ last.op = "save"
    /\ Accepted
    /\ Len(session_rules) = 2
    /\ repository # last.pre_repository

\* ------------------------------------------------------------------------
\* Calls of llm_rule_validator.validate_rule on unchanged arguments
\* ------------------------------------------------------------------------
\* the lines a reply is made of, "" for a line the reply does not have
CoexistLines ==
    { "", "Can coexist with other rules: True", "Can coexist with other rules: false",
      "Can coexist with other rules: not true" }

ContradictionLines ==
    { "", "Direct Contradictions: []", "Direct Contradictions: [T1 forbids it]" }

AmbiguousLines == { "", "Ambiguous Statements: []" }

RedundantLines == { "", "Redundant Rules: []", "Redundant Rules: [T1], []" }

\* the lines that are there, one per line of the reply
ReplyOf(lines) == Join(SelectSeq([i \in 1..Len(lines) |-> Chars(lines[i])], NonEmpty), <<NL>>)

\* replies with a repeated line, an indented line, a second colon
OddReplies ==
    { ReplyOf(<<"Can coexist with other rules: true", "Direct Contradictions: []",
                "Ambiguous Statements: []", "Redundant Rules: []",
                "Can coexist with other rules: false">>),
      ReplyOf(<<"Can coexist with other rules: true", "Direct Contradictions: [T1]",
                "Direct Contradictions: []", "Ambiguous Statements: []",
                "Redundant Rules: []">>),
      ReplyOf(<<" Can coexist with other rules: true", "Direct Contradictions: []",
                "Ambiguous Statements: []", "Redundant Rules: []">>),
      ReplyOf(<<"Can coexist with other rules: true", "Direct Contradictions: []: none",
                "Ambiguous Statements: []", "Redundant Rules: []">>) }

LlmReplies ==
    { ReplyOf(<<c, d, a, r>>) :
        c \in CoexistLines, d \in ContradictionLines, a \in AmbiguousLines,
        r \in RedundantLines } \cup OddReplies

\* outcomes of litellm.completion (temperature = 1): the call raises or
\* returns one of the replies
LlmCompletions == { [raised |-> TRUE] } \cup { [raised |-> FALSE, content |-> t] : t \in LlmReplies }

\* the rules a result reports as conflicting with the candidate: the items
\* of its two lists of rules, "[]" standing for none
MatchedOf(result) ==
    (SeqToSet(result["details"].direct_contradictions)
        \cup SeqToSet(result["details"].redundant_rules)) \ {EmptyListText}

\* what is kept of the call before the last one
NoCall == [called |-> FALSE]

Summary(ret) ==
    IF ret = Pending THEN NoCall
    ELSE [called |-> TRUE, is_valid |-> ret.result["is_valid"],
          matched |-> MatchedOf(ret.result)]

LlmInit ==
    /\ sv_provider = [encode |-> <<>>, failing |-> {}]
    /\ sv_new_rule \in { [title |-> "T0", context |-> c] : c \in {<<>>, LongA} }
    /\ sv_existing \in SeqsUpTo(CallerRules, 1)
    /\ sv_ret = Pending
    /\ StoresEmpty

\* one call of validate_rule(new_rule, existing_rules)
LlmCalls == IF last.op = "llm_validate_rule" THEN last.calls ELSE 0

LlmValidate ==
    /\ LlmCalls < MaxCalls
    /\ uuid_count < MaxUuids
    /\ \E completion \in LlmCompletions :
          LET result == llm_validate_rule(completion, sv_new_rule, sv_existing,
                                          Uuid(uuid_count + 1))
          IN  /\ sv_ret' = [state |-> "done", raised |-> FALSE, result |-> result]
              /\ uuid_count' = IF result["is_valid"] THEN uuid_count + 1 ELSE uuid_count
              /\ last' = [op |-> "llm_validate_rule", calls |-> LlmCalls + 1,
                          completion |-> completion, before |-> Summary(sv_ret)]
    /\ UNCHANGED <<sv_provider, sv_new_rule, sv_existing>>
    /\ UNCHANGED <<repository, rules, points, session_rules, editing_rule, clock>>

LlmNext == LlmValidate

SpecLLM == LlmInit /\ [][LlmNext]_vars

\* C11: two calls of validate_rule on the same candidate and the same
\* existing rules, nothing stored in between, return the same is_valid
\* verdict and the same set of matched rules.
C11_SameArgumentsSameVerdict ==
    (last.op = "llm_validate_rule" /\ last.before.called) =>
        /\ sv_ret.result["is_valid"] = last.before.is_valid
        /\ MatchedOf(sv_ret.result) = last.before.matched

\* ------------------------------------------------------------------------
\* check_semantic_overlap under two settings of similarity_threshold
\* ------------------------------------------------------------------------
\* validator.similarity_threshold = t, in thousandths
WithThreshold(self, t) == [self EXCEPT !.similarity_threshold = t]

\* the settings tried: at, between and beyond the scores the vectors give
Thresholds == { 0, 600, 800, 960, 1000 }

ThresholdTexts1 == { LongA, LongB \o <<NL>> \o LongA, ShortA \o <<NL>> \o LongB }

ThresholdTexts2 == { LongA, LongB \o <<NL, "\t">> \o ShortA }

ThrInit ==
    /\ sv_provider \in Providers
    /\ sv_new_rule \in { [title |-> "T0", context |-> c] : c \in ThresholdTexts1 }
    /\ sv_existing \in { <<[title |-> "T1", context |-> c]>> : c \in ThresholdTexts2 }
    /\ sv_ret = Pending
    /\ repository = <<>>
    /\ rules = load_rules(<<>>)
    /\ points = {}
    /\ session_rules = <<>>
    /\ editing_rule = NotEditing
    /\ uuid_count = 0
    /\ clock = 0
    /\ last \in { [op |-> "thresholds", t1 |-> t[1], t2 |-> t[2]] :
                    t \in { u \in Thresholds \X Thresholds : u[1] <= u[2] } }

\* the same two rules compared by a validator set to t1 and by one set to t2
ThrCompare ==
    /\ sv_ret = Pending
    /\ sv_ret' = [state |-> "done",
                  low |-> check_semantic_overlap(WithThreshold(SemanticValidator, last.t1),
                                                 sv_provider, sv_new_rule, sv_existing[1]),
                  high |-> check_semantic_overlap(WithThreshold(SemanticValidator, last.t2),
                                                  sv_provider, sv_new_rule, sv_existing[1])]
    /\ UNCHANGED <<sv_provider, sv_new_rule, sv_existing>>
    /\ UNCHANGED storeVars

ThrNext == ThrCompare

SpecThreshold == ThrInit /\ [][ThrNext]_vars

ThrReturned == sv_ret.state = "done" /\ ~sv_ret.low.raised /\ ~sv_ret.high.raised

\* how often an entry occurs in a detail list
Occurrences(details, d) == Cardinality({ i \in 1..Len(details) : details[i] = d })

\* C12: for the same candidate, existing rule and vectors, and thresholds
\* t1 <= t2, every match reported under t2 is reported under t1, as often,
\* and a pair of rules without overlap under t1 has none under t2.
C12_RaisingThresholdAddsNoMatch ==
    ThrReturned =>
        /\ \A i \in 1..Len(sv_ret.high.overlap_details) :
              Occurrences(sv_ret.high.overlap_details, sv_ret.high.overlap_details[i])
                 <= Occurrences(sv_ret.low.overlap_details, sv_ret.high.overlap_details[i])
        /\ Len(sv_ret.high.overlap_details) <= Len(sv_ret.low.overlap_details)
        /\ ~sv_ret.low.has_overlap => ~sv_ret.high.has_overlap

\* the higher threshold keeps some matches of the lower one and drops others
C12_Witness ==
    /\ ThrReturned
    /\ last.t1 < last.t2
    /\ Len(sv_ret.high.overlap_details) >= 1
    /\ Len(sv_ret.high.overlap_details) < Len(sv_ret.low.overlap_details)

\* ------------------------------------------------------------------------
\* Segmentation of every short context
\* ------------------------------------------------------------------------
ContextAlphabet == { "a", "b", " ", "\t", NL }

AllContexts == SeqsUpTo(ContextAlphabet, MaxContextLen)

SegInit ==
    /\ sv_provider = [encode |-> <<>>, failing |-> {}]
    /\ sv_new_rule \in { [title |-> "T0", context |-> c] : c \in AllContexts }
    /\ sv_existing = <<>>
    /\ sv_ret = Pending
    /\ StoresEmpty

\* the context is segmented by the validator and formatted by the app
SegSplit ==
    /\ sv_ret = Pending
    /\ sv_ret' = [state |-> "done",
                  segments |-> Segments(sv_new_rule["context"]),
                  formatted |-> format_rule_context(sv_new_rule["context"])]
    /\ UNCHANGED <<sv_provider, sv_new_rule, sv_existing>>
    /\ UNCHANGED storeVars

SegNext == SegSplit

SpecSegment == SegInit /\ [][SegNext]_vars

\* the positions just before a line starts: 0 and every line break
LineStarts(C) == {0} \cup { i \in 1..Len(C) : C[i] = NL }

\* the line that starts after position b: up to the next line break or the end
LineAfter(C, b) ==
    LET later == { i \in (b + 1)..Len(C) : C[i] = NL }
    IN  IF later = {} THEN SubSeq(C, b + 1, Len(C))
        ELSE SubSeq(C, b + 1, (CHOOSE i \in later : \A j \in later : i <= j) - 1)

Blank(line) == \A i \in 1..Len(line) : line[i] \in {" ", "\t", NL}

\* t is line without the whitespace at its two ends
IsTrimOf(t, line) ==
    /\ t # <<>>
    /\ ~Blank(<<t[1]>>)
    /\ ~Blank(<<t[Len(t)]>>)
    /\ \E i \in 1..Len(line) :
          /\ i + Len(t) - 1 <= Len(line)
          /\ SubSeq(line, i, i + Len(t) - 1) = t
          /\ Blank(SubSeq(line, 1, i - 1))
          /\ Blank(SubSeq(line, i + Len(t), Len(line)))

NonBlankStarts(C) == { b \in LineStarts(C) : ~Blank(LineAfter(C, b)) }

\* the place of the line starting after b among the non-blank lines
LineRank(C, b) == 1 + Cardinality({ c \in NonBlankStarts(C) : c < b })

\* C13: the segments of a context are its non-blank lines, each without the
\* whitespace at its ends, in the order of the lines: no segment is empty or
\* blank, and the empty context has no segment.  format_rule_context gives
\* the same segments, one per line.
C13_SegmentsAreTrimmedNonBlankLines ==
    sv_ret.state = "done" =>
        LET C == sv_new_rule["context"]
            segs == sv_ret.segments
        IN  /\ Len(segs) = Cardinality(NonBlankStarts(C))
            /\ \A b \in NonBlankStarts(C) : IsTrimOf(segs[LineRank(C, b)], LineAfter(C, b))
            /\ \A i \in 1..Len(segs) : ~Blank(segs[i])
            /\ C = <<>> => segs = <<>>
            /\ Cardinality(NonBlankStarts(sv_ret.formatted)) = Len(segs)
            /\ \A b \in NonBlankStarts(sv_ret.formatted) :
                  LineAfter(sv_ret.formatted, b) = segs[LineRank(sv_ret.formatted, b)]
            /\ segs # <<>> => LineStarts(sv_ret.formatted) = NonBlankStarts(sv_ret.formatted)

\* two padded lines around a blank one
C13_Witness ==
    /\ sv_ret.state = "done"
    /\ Len(sv_ret.segments) = 2
    /\ sv_ret.segments[1] # sv_ret.segments[2]
    /\ Cardinality(LineStarts(sv_new_rule["context"])) = 3
    /\ sv_new_rule["context"][1] = " "

\* ------------------------------------------------------------------------
\* calculate_similarity in floating point
\* ------------------------------------------------------------------------
\* A float is [sign, m, e] for sign * m * 2^e with 2^(Precision-1) <= m <
\* 2^Precision, or zero.  Every operation returns the float nearest to the
\* exact result, ties to even, as IEEE 754 arithmetic does.
FloatZero == [sign |-> 0, m |-> 0, e |-> 0]

FloatOne == [sign |-> 1, m |-> 2 ^ (Precision - 1), e |-> -(Precision - 1)]

\* the number of bits of a positive integer
BitLen(n) == CHOOSE b \in 1..30 : 2 ^ (b - 1) <= n /\ n < 2 ^ b

\* a significand that rounding has carried to 2^Precision
Renormalised(m, e) ==
    IF m = 2 ^ Precision THEN [sign |-> 1, m |-> 2 ^ (Precision - 1), e |-> e + 1]
    ELSE [sign |-> 1, m |-> m, e |-> e]

\* a positive integer below 2^Precision as a float: exact
FInt(n) == [sign |-> 1, m |-> n * 2 ^ (Precision - BitLen(n)), e |-> BitLen(n) - Precision]

\* the integer nearest to the square root of x, which is never a tie
NearestRoot(x, root) == IF x > root * root + root THEN root + 1 ELSE root

\* np.sqrt of a positive integer below 2^Precision
FSqrtAt(n, h) ==
    LET x == n * 4 ^ (Precision - 1 - h)
    IN  Renormalised(
            NearestRoot(x, CHOOSE r \in (2 ^ (Precision - 1))..(2 ^ Precision) :
                               r * r <= x /\ x < (r + 1) * (r + 1)),
            h - (Precision - 1))

FSqrt(n) == FSqrtAt(n, (BitLen(n) - 1) \div 2)

\* a * b for two positive floats
FMulOf(prod, e) ==
    IF prod >= 2 ^ (2 * Precision - 1)
    THEN Renormalised(RoundHalfEven(prod, 2 ^ Precision), e + Precision)
    ELSE Renormalised(RoundHalfEven(prod, 2 ^ (Precision - 1)), e + Precision - 1)

FMul(a, b) == FMulOf(a.m * b.m, a.e + b.e)

\* a / b for two positive floats
FDiv(a, b) ==
    IF a.m >= b.m
    THEN Renormalised(RoundHalfEven(a.m * 2 ^ (Precision - 1), b.m),
                      a.e - b.e - (Precision - 1))
    ELSE Renormalised(RoundHalfEven(a.m * 2 ^ Precision, b.m), a.e - b.e - Precision)

Signed(sign, x) == [x EXCEPT !.sign = sign]

Abs(n) == IF n < 0 THEN -n ELSE n

\* lines 49-52 for two non-zero vectors of small integers, whose dot products
\* are exact: dot / (norm1 * norm2), each step rounded
QuotientOf(dot, norms) ==
    IF dot = 0 THEN FloatZero
    ELSE Signed(IF dot < 0 THEN -1 ELSE 1, FDiv(FInt(Abs(dot)), norms))

\* SemanticValidator.calculate_similarity as the arrays compute it
calculate_similarity_rounded(embedding1, embedding2) ==
    IF embedding1 = ZeroVector \/ embedding2 = ZeroVector
    THEN FloatZero
    ELSE QuotientOf(Dot(embedding1, embedding2),
                    FMul(FSqrt(Dot(embedding1, embedding1)),
                         FSqrt(Dot(embedding2, embedding2))))

\* vectors of small integers
ScoreVectors == (-1..3) \X (-1..3)

ScoreInit ==
    /\ SemIdle
    /\ repository = <<>>
    /\ rules = load_rules(<<>>)
    /\ points = {}
    /\ session_rules = <<>>
    /\ editing_rule = NotEditing
    /\ uuid_count = 0
    /\ clock = 0
    /\ last \in { [op |-> "vectors", embedding1 |-> v, embedding2 |-> w] :
                    v \in ScoreVectors, w \in ScoreVectors }

\* one call of calculate_similarity(embedding1, embedding2)
Score ==
    /\ last.op = "vectors"
    /\ last' = [op |-> "calculate_similarity",
                embedding1 |-> last.embedding1, embedding2 |-> last.embedding2,
                similarity |-> calculate_similarity_rounded(last.embedding1, last.embedding2)]
    /\ UNCHANGED <<repository, rules, points, session_rules, editing_rule, uuid_count, clock>>
    /\ UNCHANGED semVars

ScoreNext == Score

SpecScore == ScoreInit /\ [][ScoreNext]_vars

\* |x| <= 1 for a float x
WithinUnit(x) ==
    x.sign = 0 \/ x.e < -(Precision - 1) \/ (x.e = -(Precision - 1) /\ x.m = 2 ^ (Precision - 1))

\* C15: calculate_similarity(v, v) is 1.0 for every non-zero v, the score is
\* 0.0 when either vector is all zero, and every score lies in [-1, 1].
C15_ScoreIsExactAndBounded ==
    last.op = "calculate_similarity" =>
        /\ (last.embedding1 = last.embedding2 /\ last.embedding1 # ZeroVector) =>
              last.similarity = FloatOne
        /\ (last.embedding1 = ZeroVector \/ last.embedding2 = ZeroVector) =>
              last.similarity = FloatZero
        /\ WithinUnit(last.similarity)

\* ------------------------------------------------------------------------
\* Properties of llm_rule_validator.validate_rule (SpecLLM)
\* ------------------------------------------------------------------------
\* the lines of a reply that start with a prefix
LinesWith(reply, prefix) ==
    { LineAfter(reply, b) : b \in { c \in LineStarts(reply) :
                                       StartsWith(LineAfter(reply, c), prefix) } }

\* what a line says: the text between its first colon and the next one, or
\* the end of the line, without the whitespace at its ends
Said(line) ==
    LET colons == { i \in 1..Len(line) : line[i] = ":" }
        first == CHOOSE i \in colons : \A j \in colons : i <= j
        next == { i \in colons : i > first }
    IN  Strip(SubSeq(line, first + 1,
                     IF next = {} THEN Len(line)
                     ELSE (CHOOSE i \in next : \A j \in next : i <= j) - 1))

EndsWith(s, suffix) ==
    Len(s) >= Len(suffix) /\ SubSeq(s, Len(s) - Len(suffix) + 1, Len(s)) = suffix

\* the line reports "[]": "[]" is one of the items, separated by ", ", of
\* what it says
ReportsEmptyList(line) ==
    \/ Said(line) = Chars("[]")
    \/ StartsWith(Said(line), Chars("[], "))
    \/ EndsWith(Said(line), Chars(", []"))
    \/ Contains(Said(line), Chars(", [], "))

SaysTrue(line) == Contains(Lower(Said(line)), Chars("true"))

ListPrefixes == { ContradictionsPrefix, AmbiguousPrefix, RedundantPrefix }

====
